---- MODULE Spec2Model ----
(***************************************************************************)
(* dualmouse-deck: the per-device evdev Decoder (evdev/decode.rs), the     *)
(* daemon's construction pass (evdev/mod.rs) and the consumer's fold       *)
(* (state/cursor.rs, main.rs).                                             *)
(*                                                                         *)
(* A Rust method `fn f(&mut self, ..)` is an operator from the decoder     *)
(* record to the decoder record; Option<T> is a set of at most one T       *)
(* (None = {}, Some(x) = {x}); a RangeInclusive is the pair <<lo, hi>>.    *)
(* f32 values are the integer-valued ones (abs_scale is an integer), kept  *)
(* as integers and rounded to f32's 24-bit significand by RoundF32.        *)
(***************************************************************************)
EXTENDS Integers, Sequences, FiniteSets, TLC

VARIABLES
    dec,              \* the Decoder under observation
    overflow_checks,  \* build profile: TRUE = i32 overflow panics, FALSE = wraps
    panicked,         \* the process died in a panic
    event,            \* history: the raw event decoded last
    routed,           \* history: what cursor_for_event returned for it
    emitted,          \* the Vec<CursorEvent> the last decode returned
    win,              \* history: what was reported since the last sync
    closed,           \* history: at a sync, the window it closed
    mt_hist,          \* history: per slot, the samples completed since assignment
    abs_hist,         \* history: per cursor, the simple-absolute samples completed
    travel,           \* history: the simple-absolute motion emitted so far
    expect,           \* history: at a sync, the motion the reports add up to
    axis_said,        \* history: the cursor the last designated-axis report named
    freed,            \* history: the cursors releases freed, and the one just reused
    left,             \* main's CursorState for Left
    right,            \* main's CursorState for Right
    sources,          \* the Vec<DeviceSource> handed to EvdevDaemon::new
    devices,          \* EvdevDaemon.devices once constructed
    returned,         \* the Result the last EvdevDaemon::poll returned
    cycle,            \* history: the last polling cycle, as the system saw it
    phase             \* "decoder": a Decoder driven event by event;
                      \* "running": main's loop, folding what decode returns;
                      \* "discovered" | "constructed" | "open_failed": EvdevDaemon::new

vars == <<dec, overflow_checks, panicked, event, routed, emitted, win, closed,
          mt_hist, abs_hist, travel, expect, axis_said, freed, left, right, sources,
          devices, returned, cycle, phase>>

-----------------------------------------------------------------------------
(* Option<T> *)

None == {}
Some(x) == {x}
Unwrap(o) == CHOOSE x \in o : TRUE

(* CursorId, Button *)

CursorIds == {"Left", "Right"}
Buttons == {"Left", "Right", "Middle"}

-----------------------------------------------------------------------------
(* Event codes of the input subsystem, as the evdev crate names them. *)

REL_X == 0
REL_Y == 1
REL_HWHEEL == 6
REL_WHEEL == 8
ABS_X == 0
ABS_Y == 1
ABS_MT_SLOT == 47
ABS_MT_POSITION_X == 53
ABS_MT_POSITION_Y == 54
ABS_MT_TRACKING_ID == 57
BTN_LEFT == 272
BTN_RIGHT == 273
BTN_MIDDLE == 274
BTN_SIDE == 275
SYN_REPORT == 0
MSC_SCAN == 4

Ev(k, c, v) == [kind |-> k, code |-> c, value |-> v]
NoEvent == Ev("None", 0, 0)

-----------------------------------------------------------------------------
(* i32 and f32 arithmetic *)

I32Max == 2147483647
I32Min == (-I32Max) - 1

\* a + b leaves i32
AddOverflows(a, b) ==
    \/ b > 0 /\ a > I32Max - b
    \/ b < 0 /\ a < I32Min - b

\* i32::wrapping_add, never leaving the 32-bit range on the way
WrappingAdd(a, b) ==
    IF b > 0 /\ a > I32Max - b THEN (a + I32Min) + (b + I32Min)
    ELSE IF b < 0 /\ a < I32Min - b THEN (a - I32Min) + (b - I32Min)
    ELSE a + b

\* a - b leaves i32
SubOverflows(a, b) ==
    \/ b < 0 /\ a > I32Max + b
    \/ b > 0 /\ a < I32Min + b

WrappingSub(a, b) ==
    IF b < 0 /\ a > I32Max + b THEN (a + I32Min) - (b - I32Min)
    ELSE IF b > 0 /\ a < I32Min + b THEN (a - I32Min) - (b + I32Min)
    ELSE a - b

\* Rust's % : the remainder has the sign of the dividend
RustRem(a, b) ==
    IF a >= 0 THEN a % b
    ELSE IF a = I32Min THEN -(((I32Max % b) + 1) % b)
    ELSE -((-a) % b)

F32_MANTISSA_DIGITS == 24

RECURSIVE Pow2(_)
Pow2(n) == IF n = 0 THEN 1 ELSE 2 * Pow2(n - 1)

\* the spacing of f32 values around magnitude a
F32ExactLimit == Pow2(F32_MANTISSA_DIGITS)

RECURSIVE Ulp(_)
Ulp(a) == IF a < F32ExactLimit THEN 1 ELSE 2 * Ulp(a \div 2)

\* of the f32 magnitudes lo and lo + q, the one nearest to a, ties to even
RoundTo(a, q, lo) ==
    IF 2 * (a - lo) < q THEN lo
    ELSE IF 2 * (a - lo) > q THEN lo + q
    ELSE IF (lo \div q) % 2 = 0 THEN lo ELSE lo + q

\* the f32 nearest to the integer n, ties to even (|n| < 2^30 in this model)
RoundF32(n) ==
    IF n < 0 THEN -RoundTo(-n, Ulp(-n), ((-n) \div Ulp(-n)) * Ulp(-n))
    ELSE RoundTo(n, Ulp(n), (n \div Ulp(n)) * Ulp(n))

\* `value as f32`
AsF32(v) == RoundF32(v)
\* f32 + f32 and f32 * f32 are the exact result, rounded
F32Add(a, b) == RoundF32(a + b)
F32Mul(a, b) == RoundF32(a * b)

-----------------------------------------------------------------------------
(* The decoder's state *)

PendingMotion == [dx |-> 0, dy |-> 0, wheel |-> 0, button |-> None]
AbsState == [last_x |-> None, last_y |-> None, cur_x |-> None, cur_y |-> None]
MtSlotState == [tracking_id |-> None, cursor |-> None, last_x |-> None,
                last_y |-> None, cur_x |-> None, cur_y |-> None]

\* Decoder.abs_scale: DUALMOUSE_ABS_SCALE=2
abs_scale == 2

\* MappingStrategy and SingleDeviceMapping, flattened into one record
DevicePerCursor(c) ==
    [kind |-> "DevicePerCursor", cursor |-> c, axis |-> 0,
     left |-> <<0, 0>>, right |-> <<0, 0>>]
Unknown ==
    [kind |-> "Unknown", cursor |-> "Left", axis |-> 0,
     left |-> <<0, 0>>, right |-> <<0, 0>>]
ByAbsAxisRange(a, l, r) ==
    [kind |-> "ByAbsAxisRange", cursor |-> "Left", axis |-> a, left |-> l, right |-> r]
ByEventCodeRange(l, r) ==
    [kind |-> "ByEventCodeRange", cursor |-> "Left", axis |-> 0, left |-> l, right |-> r]
ByTrackingIdParity ==
    [kind |-> "ByTrackingIdParity", cursor |-> "Left", axis |-> 0,
     left |-> <<0, 0>>, right |-> <<0, 0>>]

\* RangeInclusive::contains
Contains(r, v) == r[1] <= v /\ v <= r[2]

\* Decoder::new
NewDecoder(m) ==
    [mapping |-> m,
     pending_left |-> PendingMotion,
     pending_right |-> PendingMotion,
     abs_left |-> AbsState,
     abs_right |-> AbsState,
     mt_slots |-> <<>>,
     mt_cur_slot |-> 0,
     mt_left_tracking |-> None,
     mt_right_tracking |-> None,
     active_cursor |-> "Left",
     warned_unknown |-> FALSE,
     last_abs_x |-> None]

\* Decoder::pending_mut, read and written
pending_mut(D, c) == IF c = "Left" THEN D.pending_left ELSE D.pending_right
set_pending(D, c, p) ==
    IF c = "Left" THEN [D EXCEPT !.pending_left = p]
    ELSE [D EXCEPT !.pending_right = p]

\* Decoder::abs_state_mut, read and written
abs_state_mut(D, c) == IF c = "Left" THEN D.abs_left ELSE D.abs_right
set_abs_state(D, c, s) ==
    IF c = "Left" THEN [D EXCEPT !.abs_left = s]
    ELSE [D EXCEPT !.abs_right = s]

\* take_pending leaving the PendingMotion in place
keep_pending(D, c) == D

\* Decoder::take_pending: the decoder after std::mem::take
take_pending(D, c) == set_pending(D, c, PendingMotion)

-----------------------------------------------------------------------------
(* Cursor assignment *)

LeftOrRight(l, r, v) ==
    IF Contains(l, v) THEN Some("Left")
    ELSE IF Contains(r, v) THEN Some("Right")
    ELSE None

\* cursor_from_single_mapping
cursor_from_single_mapping(m, e, last_abs_x) ==
    CASE m.kind = "Unknown" -> None
      [] m.kind = "ByTrackingIdParity" ->
            IF e.kind = "AbsAxis" /\ e.code = ABS_MT_TRACKING_ID
            THEN IF RustRem(e.value, 2) = 0 THEN Some("Left") ELSE Some("Right")
            ELSE None
      [] m.kind = "ByEventCodeRange" -> LeftOrRight(m.left, m.right, e.code)
      [] m.kind = "ByAbsAxisRange" ->
            IF e.kind = "AbsAxis" /\ e.code = m.axis
            THEN LeftOrRight(m.left, m.right, e.value)
            ELSE IF last_abs_x # None
            THEN LeftOrRight(m.left, m.right, Unwrap(last_abs_x))
            ELSE None
      [] OTHER -> None

\* the SingleDevice arm without the one-shot warning
single_device_silent(D, c) ==
    IF c # None
    THEN [dec |-> [D EXCEPT !.active_cursor = Unwrap(c)], cursor |-> Unwrap(c)]
    ELSE [dec |-> D, cursor |-> D.active_cursor]

\* the SingleDevice arm of cursor_for_event, c being what
\* cursor_from_single_mapping returned
single_device_cursor(D, c) ==
    IF c # None
    THEN [dec |-> [D EXCEPT !.active_cursor = Unwrap(c)], cursor |-> Unwrap(c)]
    ELSE IF D.mapping.kind = "Unknown" /\ ~D.warned_unknown
    THEN [dec |-> [D EXCEPT !.warned_unknown = TRUE], cursor |-> D.active_cursor]
    ELSE [dec |-> D, cursor |-> D.active_cursor]

\* Decoder::cursor_for_event: the decoder afterwards and the cursor returned
cursor_for_event(D, e) ==
    IF D.mapping.kind = "DevicePerCursor"
    THEN [dec |-> D, cursor |-> D.mapping.cursor]
    ELSE single_device_cursor(D, cursor_from_single_mapping(D.mapping, e, D.last_abs_x))

\* Decoder::update_mapping_from_abs
update_mapping_from_abs(D, axis, value) ==
    IF D.mapping.kind = "ByAbsAxisRange" /\ axis = D.mapping.axis
    THEN IF Contains(D.mapping.left, value) THEN [D EXCEPT !.active_cursor = "Left"]
         ELSE IF Contains(D.mapping.right, value) THEN [D EXCEPT !.active_cursor = "Right"]
         ELSE D
    ELSE D

\* map_button taking every other key for the middle button
map_any_button(key) ==
    CASE key = BTN_LEFT -> Some("Left")
      [] key = BTN_RIGHT -> Some("Right")
      [] OTHER -> Some("Middle")

\* map_button
map_button(key) ==
    CASE key = BTN_LEFT -> Some("Left")
      [] key = BTN_RIGHT -> Some("Right")
      [] key = BTN_MIDDLE -> Some("Middle")
      [] OTHER -> None

-----------------------------------------------------------------------------
(* Multi-touch slots.  Slot index i is mt_slots[i + 1]. *)

\* usize::try_from(self.mt_cur_slot) succeeds
SlotIndexOk(D) == D.mt_cur_slot >= 0

\* Decoder::ensure_slot
ensure_slot(D, slot_index) ==
    IF Len(D.mt_slots) <= slot_index
    THEN [D EXCEPT !.mt_slots =
            [i \in 1..(slot_index + 1) |->
                IF i <= Len(D.mt_slots) THEN D.mt_slots[i] ELSE MtSlotState]]
    ELSE D

\* Decoder::assign_tracking: the decoder afterwards and the Option<CursorId>
assign_tracking(D, tracking_id) ==
    IF D.mt_left_tracking = Some(tracking_id)
    THEN [dec |-> D, cursor |-> Some("Left")]
    ELSE IF D.mt_right_tracking = Some(tracking_id)
    THEN [dec |-> D, cursor |-> Some("Right")]
    ELSE IF D.mt_left_tracking = None
    THEN [dec |-> [D EXCEPT !.mt_left_tracking = Some(tracking_id)],
          cursor |-> Some("Left")]
    ELSE IF D.mt_right_tracking = None
    THEN [dec |-> [D EXCEPT !.mt_right_tracking = Some(tracking_id)],
          cursor |-> Some("Right")]
    ELSE [dec |-> D, cursor |-> None]

\* release_tracking forgetting to clear the bindings
release_nothing(D, tracking_id) == D

\* Decoder::release_tracking
release_tracking(D, tracking_id) ==
    LET D1 == IF D.mt_left_tracking = Some(tracking_id)
              THEN [D EXCEPT !.mt_left_tracking = None] ELSE D
    IN IF D1.mt_right_tracking = Some(tracking_id)
       THEN [D1 EXCEPT !.mt_right_tracking = None] ELSE D1

\* handle_mt_tracking_id, value < 0, on the slot mt_slots[i]
release_slot(D, i) ==
    [(IF D.mt_slots[i].tracking_id # None
      THEN release_tracking(D, Unwrap(D.mt_slots[i].tracking_id))
      ELSE D) EXCEPT !.mt_slots[i] = MtSlotState]

\* handle_mt_tracking_id, value >= 0, on the slot mt_slots[i], a being what
\* assign_tracking returned
bind_slot(i, value, a) ==
    IF a.cursor # None
    THEN [a.dec EXCEPT !.mt_slots[i] =
            [tracking_id |-> Some(value), cursor |-> a.cursor,
             last_x |-> None, last_y |-> None,
             cur_x |-> None, cur_y |-> None]]
    ELSE [a.dec EXCEPT !.mt_slots[i].tracking_id = Some(value)]

\* handle_mt_tracking_id once the slot exists
tracking_id_on_slot(D, i, value) ==
    IF value < 0 THEN release_slot(D, i)
    ELSE bind_slot(i, value, assign_tracking(D, value))

\* Decoder::handle_mt_tracking_id
handle_mt_tracking_id(D, value) ==
    IF ~SlotIndexOk(D) THEN D
    ELSE tracking_id_on_slot(ensure_slot(D, D.mt_cur_slot), D.mt_cur_slot + 1, value)

\* update_mt_slot_position once the slot exists
position_on_slot(D, i, axis, value) ==
    CASE axis = ABS_MT_POSITION_X -> [D EXCEPT !.mt_slots[i].cur_x = Some(value)]
      [] axis = ABS_MT_POSITION_Y -> [D EXCEPT !.mt_slots[i].cur_y = Some(value)]
      [] OTHER -> D

\* Decoder::update_mt_slot_position
update_mt_slot_position(D, axis, value) ==
    IF ~SlotIndexOk(D) THEN D
    ELSE position_on_slot(ensure_slot(D, D.mt_cur_slot), D.mt_cur_slot + 1, axis, value)

\* a slot, or an AbsState, holds a complete current sample and a last position:
\* the next sync subtracts
Subtracts(s) ==
    s.cur_x # None /\ s.cur_y # None /\ s.last_x # None /\ s.last_y # None

\* (cx - lx) or (cy - ly) leaves i32
DeltaOverflows(s) ==
    /\ Subtracts(s)
    /\ \/ SubOverflows(Unwrap(s.cur_x), Unwrap(s.last_x))
       \/ SubOverflows(Unwrap(s.cur_y), Unwrap(s.last_y))

\* AfterSample dropping a partial sample
discard_partial(s) ==
    IF s.cur_x # None /\ s.cur_y # None
    THEN [s EXCEPT !.last_x = s.cur_x, !.last_y = s.cur_y,
                   !.cur_x = None, !.cur_y = None]
    ELSE [s EXCEPT !.cur_x = None, !.cur_y = None]

\* the position fields after a sync: a complete sample moves to last_*, a
\* partial one is kept
AfterSample(s) ==
    IF s.cur_x # None /\ s.cur_y # None
    THEN [s EXCEPT !.last_x = s.cur_x, !.last_y = s.cur_y,
                   !.cur_x = None, !.cur_y = None]
    ELSE s

\* (cx - lx) as f32 * self.abs_scale, for both axes; <<0, 0>> when the sample
\* is partial or the first
ScaledDelta(s) ==
    IF Subtracts(s)
    THEN <<F32Mul(AsF32(WrappingSub(Unwrap(s.cur_x), Unwrap(s.last_x))), abs_scale),
           F32Mul(AsF32(WrappingSub(Unwrap(s.cur_y), Unwrap(s.last_y))), abs_scale)>>
    ELSE <<0, 0>>

\* pending.dx += d[1]; pending.dy += d[2], for cursor c
add_motion(D, c, d) ==
    set_pending(D, c, [pending_mut(D, c) EXCEPT !.dx = F32Add(@, d[1]),
                                                !.dy = F32Add(@, d[2])])

\* one turn of the loop of Decoder::apply_mt_deltas, for mt_slots[i]
apply_mt_slot(D, i) ==
    IF D.mt_slots[i].cursor = None THEN D
    ELSE IF Subtracts(D.mt_slots[i])
    THEN add_motion([D EXCEPT !.mt_slots[i] = AfterSample(@)],
                    Unwrap(D.mt_slots[i].cursor), ScaledDelta(D.mt_slots[i]))
    ELSE [D EXCEPT !.mt_slots[i] = AfterSample(@)]

\* Decoder::apply_mt_deltas, from slot i on
RECURSIVE apply_mt_from(_, _)
apply_mt_from(D, i) ==
    IF i > Len(D.mt_slots) THEN D ELSE apply_mt_from(apply_mt_slot(D, i), i + 1)

apply_mt_deltas(D) == apply_mt_from(D, 1)

-----------------------------------------------------------------------------
(* Simple absolute axes *)

\* Decoder::update_abs_axis
update_abs_axis(D, c, axis, value) ==
    CASE axis = ABS_X ->
            set_abs_state(D, c, [abs_state_mut(D, c) EXCEPT !.cur_x = Some(value)])
      [] axis = ABS_Y ->
            set_abs_state(D, c, [abs_state_mut(D, c) EXCEPT !.cur_y = Some(value)])
      [] OTHER -> D

\* Decoder::abs_delta: the decoder afterwards and the (f32, f32) returned
abs_delta(D, c) ==
    [dec |-> set_abs_state(D, c, AfterSample(abs_state_mut(D, c))),
     delta |-> ScaledDelta(abs_state_mut(D, c))]

\* Decoder::update_abs_position
update_abs_position(D, c, axis, value) ==
    CASE axis = ABS_MT_SLOT -> [D EXCEPT !.mt_cur_slot = value]
      [] axis = ABS_MT_TRACKING_ID -> handle_mt_tracking_id(D, value)
      [] axis = ABS_MT_POSITION_X -> update_mt_slot_position(D, axis, value)
      [] axis = ABS_MT_POSITION_Y -> update_mt_slot_position(D, axis, value)
      [] axis = ABS_X -> update_abs_axis(D, c, axis, value)
      [] axis = ABS_Y -> update_abs_axis(D, c, axis, value)
      [] OTHER -> D

-----------------------------------------------------------------------------
(* Flush and decode *)

CursorEvent(c, dx, dy, wheel, button) ==
    [cursor |-> c, dx |-> dx, dy |-> dy, wheel |-> wheel, button |-> button]

\* push_event without the `continue` of an empty PendingMotion
push_event_unsuppressed(D, c, dx, dy, pending) ==
    [dec |-> D, events |-> <<CursorEvent(c, dx, dy, pending.wheel, pending.button)>>]

\* the end of one turn of flush's loop: `continue`, or events.push; D is the
\* decoder after take_pending, pending what was taken
push_event(D, c, dx, dy, pending) ==
    IF dx = 0 /\ dy = 0 /\ pending.wheel = 0 /\ pending.button = None
    THEN [dec |-> D, events |-> <<>>]
    ELSE [dec |-> D, events |-> <<CursorEvent(c, dx, dy, pending.wheel, pending.button)>>]

\* one turn of flush's loop after its abs_delta returned a
flush_pending(c, a) ==
    push_event(take_pending(a.dec, c), c,
               F32Add(pending_mut(a.dec, c).dx, a.delta[1]),
               F32Add(pending_mut(a.dec, c).dy, a.delta[2]),
               pending_mut(a.dec, c))

\* one turn of the loop of Decoder::flush, for cursor c: the decoder afterwards
\* and the events pushed
flush_cursor(D, c) == flush_pending(c, abs_delta(D, c))

\* the turn for Right after the turn for Left returned l
flush_right(l, r) == [dec |-> r.dec, events |-> l.events \o r.events]
flush_after_left(l) == flush_right(l, flush_cursor(l.dec, "Right"))

\* Decoder::flush
flush(D) == flush_after_left(flush_cursor(apply_mt_deltas(D), "Left"))

\* the subtractions of a flush that leave i32
FlushOverflows(D) ==
    \/ \E i \in 1..Len(D.mt_slots) :
          D.mt_slots[i].cursor # None /\ DeltaOverflows(D.mt_slots[i])
    \/ DeltaOverflows(D.abs_left)
    \/ DeltaOverflows(D.abs_right)

\* the arithmetic of decode(e) that leaves i32 (a panic under overflow
\* checks), c being what cursor_for_event returned
DecodeOverflows(c, e) ==
    \/ /\ e.kind = "RelAxis" /\ e.code = REL_WHEEL
       /\ AddOverflows(pending_mut(c.dec, c.cursor).wheel, e.value)
    \/ e.kind = "Sync" /\ FlushOverflows(c.dec)

\* the match of decode, cursor being what cursor_for_event returned
decode_kind(D, cursor, e) ==
    CASE e.kind = "RelAxis" ->
            [dec |-> CASE e.code = REL_X ->
                          set_pending(D, cursor,
                              [pending_mut(D, cursor) EXCEPT
                                  !.dx = F32Add(@, AsF32(e.value))])
                       [] e.code = REL_Y ->
                          set_pending(D, cursor,
                              [pending_mut(D, cursor) EXCEPT
                                  !.dy = F32Add(@, AsF32(e.value))])
                       [] e.code = REL_WHEEL ->
                          set_pending(D, cursor,
                              [pending_mut(D, cursor) EXCEPT
                                  !.wheel = WrappingAdd(@, e.value)])
                       [] OTHER -> D,
             events |-> <<>>]
      [] e.kind = "Key" ->
            [dec |-> IF map_button(e.code) # None
                     THEN set_pending(D, cursor,
                              [pending_mut(D, cursor) EXCEPT !.button =
                                  Some(<<Unwrap(map_button(e.code)), e.value # 0>>)])
                     ELSE D,
             events |-> <<>>]
      [] e.kind = "AbsAxis" ->
            [dec |-> update_abs_position(
                         update_mapping_from_abs(
                             [D EXCEPT !.last_abs_x =
                                 IF e.code = ABS_MT_POSITION_X THEN Some(e.value) ELSE @],
                             e.code, e.value),
                         cursor, e.code, e.value),
             events |-> <<>>]
      [] e.kind = "Sync" -> flush(D)
      [] OTHER -> [dec |-> D, events |-> <<>>]

decode_routed(c, e) == decode_kind(c.dec, c.cursor, e)

\* Decoder::decode: the decoder afterwards and the events returned
decode(D, e) == decode_routed(cursor_for_event(D, e), e)

-----------------------------------------------------------------------------
(* The consumer: CursorState and main's fold *)

\* CursorState::new
NewCursorState(id) == [id |-> id, x |-> 0, y |-> 0, buttons |-> {}]

\* CursorState::apply never removing a button
apply_press_only(state, ev) ==
    [state EXCEPT
        !.x = F32Add(@, ev.dx),
        !.y = F32Add(@, ev.dy),
        !.buttons = IF ev.button = None THEN @ ELSE @ \cup {Unwrap(ev.button)[1]}]

\* CursorState::apply
apply(state, ev) ==
    [state EXCEPT
        !.x = F32Add(@, ev.dx),
        !.y = F32Add(@, ev.dy),
        !.buttons = IF ev.button = None THEN @
                    ELSE IF Unwrap(ev.button)[2] THEN @ \cup {Unwrap(ev.button)[1]}
                    ELSE @ \ {Unwrap(ev.button)[1]}]

\* main's `for event in events { apply_event(&mut left, &mut right, event) }`:
\* the pair <<left, right>> afterwards
RECURSIVE apply_events(_, _, _)
apply_events(l, r, events) ==
    IF events = <<>> THEN <<l, r>>
    ELSE IF Head(events).cursor = "Left"
    THEN apply_events(apply(l, Head(events)), r, Tail(events))
    ELSE apply_events(l, apply(r, Head(events)), Tail(events))

-----------------------------------------------------------------------------
(* The daemon's construction: evdev/mod.rs *)

\* DeviceSource: the name stands for the path and the name
DeviceSource(name, hint) == [name |-> name, cursor_hint |-> hint]

\* the indices, from 1, of the sources whose hint is h
IndicesWith(srcs, h) == {i \in 1..Len(srcs) : srcs[i].cursor_hint = h}

\* left_idx and right_idx after the loop: the last index with that hint
LastIndexWith(srcs, h) ==
    IF IndicesWith(srcs, h) = {} THEN None
    ELSE Some(CHOOSE i \in IndicesWith(srcs, h) : \A j \in IndicesWith(srcs, h) : j <= i)

\* assign_cursor_hints ignoring the list
assign_no_hints(srcs) == srcs

\* assign_cursor_hints: the list afterwards
assign_cursor_hints(srcs) ==
    LET left_idx == LastIndexWith(srcs, Some("Left"))
        right_idx == LastIndexWith(srcs, Some("Right"))
        unknown_idx == IndicesWith(srcs, None)
    IN IF Len(srcs) # 2 THEN srcs
       ELSE IF left_idx # None /\ right_idx # None THEN srcs
       ELSE IF left_idx # None /\ Cardinality(unknown_idx) = 1
       THEN [i \in 1..2 |-> IF i \in unknown_idx
                            THEN [srcs[i] EXCEPT !.cursor_hint = Some("Right")]
                            ELSE srcs[i]]
       ELSE IF right_idx # None /\ Cardinality(unknown_idx) = 1
       THEN [i \in 1..2 |-> IF i \in unknown_idx
                            THEN [srcs[i] EXCEPT !.cursor_hint = Some("Left")]
                            ELSE srcs[i]]
       ELSE IF left_idx = None /\ right_idx = None /\ Cardinality(unknown_idx) = 2
       THEN <<[srcs[1] EXCEPT !.cursor_hint = Some("Left")],
              [srcs[2] EXCEPT !.cursor_hint = Some("Right")]>>
       ELSE srcs

\* the mapping EvdevDaemon::new chooses for a source
MappingFor(source) ==
    IF source.cursor_hint # None
    THEN DevicePerCursor(Unwrap(source.cursor_hint))
    ELSE Unknown

\* DeviceHandle, without the open file
DeviceHandle(source) == [source |-> source, decoder |-> NewDecoder(MappingFor(source))]

-----------------------------------------------------------------------------
(* The daemon's polling cycle: EvdevDaemon::poll *)

\* Result<Vec<_>>: Ok(value) or Err(error)
Ok(v) == [tag |-> "Ok", value |-> v, error |-> ""]
Err(e) == [tag |-> "Err", value |-> <<>>, error |-> e]

\* `for event in events { let decoded = handle.decoder.decode(event, ..)?;
\* output.extend(decoded); }`: the decoder and the output afterwards, and
\* whether an i32 overflowed on the way.  r is what decode returned for the
\* first event.
RECURSIVE decode_events(_, _, _, _)

\* extend_output replacing the Vec by what the last decode returned
replace_output(r, rest, output, overflowed) ==
    decode_events(r.dec, rest, r.events, overflowed)

extend_output(r, rest, output, overflowed) ==
    decode_events(r.dec, rest, output \o r.events, overflowed)

decode_events(D, events, output, overflowed) ==
    IF events = <<>>
    THEN [dec |-> D, events |-> output, overflowed |-> overflowed]
    ELSE extend_output(decode(D, Head(events)), Tail(events), output,
                       overflowed \/ DecodeOverflows(cursor_for_event(D, Head(events)),
                                                     Head(events)))

\* the loop of poll from index idx on.  revents: the indices whose PollFd has
\* POLLIN; fetch: for each of them the Result fetch_events returns; output:
\* the Vec so far; reads: the devices fetch_events was called on so far.
RECURSIVE poll_from(_, _, _, _, _, _, _)

\* fetch_error returning what was decoded so far instead of the error
fetch_error_swallowed(devs, error, output, reads, overflowed) ==
    [devices |-> devs, result |-> Ok(output), reads |-> reads,
     overflowed |-> overflowed]

\* the `?` of `handle.device.fetch_events()?`: the error is returned and the
\* output Vec dropped
fetch_error(devs, error, output, reads, overflowed) ==
    [devices |-> devs, result |-> Err(error), reads |-> reads,
     overflowed |-> overflowed]

poll_decoded(devs, idx, revents, fetch, reads, r) ==
    poll_from([devs EXCEPT ![idx].decoder = r.dec], idx + 1, revents, fetch,
              r.events, reads, r.overflowed)

poll_from(devs, idx, revents, fetch, output, reads, overflowed) ==
    IF idx > Len(devs)
    THEN [devices |-> devs, result |-> Ok(output), reads |-> reads,
          overflowed |-> overflowed]
    ELSE IF idx \notin revents
    THEN poll_from(devs, idx + 1, revents, fetch, output, reads, overflowed)
    ELSE IF fetch[idx].tag = "Err"
    THEN fetch_error(devs, fetch[idx].error, output, Append(reads, idx), overflowed)
    ELSE poll_decoded(devs, idx, revents, fetch, Append(reads, idx),
                      decode_events(devs[idx].decoder, fetch[idx].value, output,
                                    overflowed))

\* EvdevDaemon::poll once the readiness wait has returned
poll(devs, revents, fetch) == poll_from(devs, 1, revents, fetch, <<>>, <<>>, FALSE)

-----------------------------------------------------------------------------
(* History: what the device reported, kept beside the decoder *)

KnownButtonCodes == {BTN_LEFT, BTN_RIGHT, BTN_MIDDLE}
ButtonOf(code) ==
    IF code = BTN_LEFT THEN "Left" ELSE IF code = BTN_RIGHT THEN "Right" ELSE "Middle"

NoneHeld == [c \in CursorIds |-> {}]

WinCursor ==
    [sx |-> 0, sy |-> 0, sw |-> 0, sk |-> 0, key |-> None, first |-> None,
     stray |-> FALSE]
WinEmpty ==
    [Left |-> WinCursor, Right |-> WinCursor, abs |-> FALSE, rel |-> 0,
     held |-> NoneHeld, after_sync |-> FALSE, down |-> NoneHeld]

\* the reports of one window: how many were relative, whether any was absolute
\* and, per cursor they were routed to, the sums of REL_X and of REL_Y, the sum
\* of REL_WHEEL as sw + sk * 2^32, the last and the first key report of a
\* known button, and whether a key report of another code was among them;
\* down, which no sync resets: per cursor, the buttons whose most recent key
\* report was a press
WinReport(w, e, c) ==
    CASE e.kind = "RelAxis" /\ e.code = REL_X -> [w EXCEPT ![c].sx = @ + e.value]
      [] e.kind = "RelAxis" /\ e.code = REL_Y -> [w EXCEPT ![c].sy = @ + e.value]
      [] e.kind = "RelAxis" /\ e.code = REL_WHEEL ->
            [w EXCEPT ![c].sw = WrappingAdd(@, e.value),
                      ![c].sk = IF ~AddOverflows(w[c].sw, e.value) THEN @
                                ELSE IF e.value > 0 THEN @ + 1 ELSE @ - 1]
      [] e.kind = "Key" /\ e.code \in KnownButtonCodes ->
            [w EXCEPT ![c].key = Some(<<ButtonOf(e.code), e.value # 0>>),
                      ![c].first = IF @ = None
                                   THEN Some(<<ButtonOf(e.code), e.value # 0>>)
                                   ELSE @,
                      !.down[c] = IF e.value # 0 THEN @ \cup {ButtonOf(e.code)}
                                  ELSE @ \ {ButtonOf(e.code)}]
      [] e.kind = "Key" -> [w EXCEPT ![c].stray = TRUE]
      [] OTHER -> w

WinAfter(w, e, c) ==
    IF e.kind = "Sync" THEN [WinEmpty EXCEPT !.down = w.down]
    ELSE WinReport([w EXCEPT !.rel = IF e.kind = "RelAxis" THEN @ + 1 ELSE @,
                             !.abs = @ \/ e.kind = "AbsAxis"], e, c)

\* per slot index and per cursor: n, the samples completed since the slot's
\* tracking id was assigned (since the start, for a cursor), 2 standing for
\* "two or more", and the last of them
NoSamples == [n |-> 0, x |-> 0, y |-> 0]

Completes(s) == s.cur_x # None /\ s.cur_y # None

SampleAfter(h, s) ==
    IF Completes(s)
    THEN [n |-> IF h.n < 2 THEN h.n + 1 ELSE 2, x |-> Unwrap(s.cur_x), y |-> Unwrap(s.cur_y)]
    ELSE h

SlotOf(D, i) == IF i + 1 <= Len(D.mt_slots) THEN D.mt_slots[i + 1] ELSE MtSlotState

MtHistAfter(h, D, e) ==
    IF e.kind = "AbsAxis" /\ e.code = ABS_MT_TRACKING_ID /\ D.mt_cur_slot \in DOMAIN h
    THEN [h EXCEPT ![D.mt_cur_slot] = NoSamples]
    ELSE IF e.kind = "Sync"
    THEN [i \in DOMAIN h |->
            IF SlotOf(D, i).cursor # None THEN SampleAfter(h[i], SlotOf(D, i)) ELSE h[i]]
    ELSE h

AbsHistAfter(h, D, e) ==
    IF e.kind = "Sync"
    THEN [c \in CursorIds |-> SampleAfter(h[c], abs_state_mut(D, c))]
    ELSE h

Plus(a, b) == <<a[1] + b[1], a[2] + b[2]>>

\* while nothing but ABS_X, ABS_Y and syncs was decoded (pure): per cursor,
\* the first simple-absolute sample completed and the sums of dx and of dy
\* over the events emitted
NoTravel ==
    [pure |-> TRUE, first |-> [c \in CursorIds |-> None],
     sum |-> [c \in CursorIds |-> <<0, 0>>]]

Strayed == [NoTravel EXCEPT !.pure = FALSE]

RECURSIVE MotionIn(_, _)
MotionIn(events, c) ==
    IF events = <<>> THEN <<0, 0>>
    ELSE Plus(IF Head(events).cursor = c
              THEN <<Head(events).dx, Head(events).dy>> ELSE <<0, 0>>,
              MotionIn(Tail(events), c))

FirstAfter(f, s) ==
    IF f = None /\ Completes(s) THEN Some(<<Unwrap(s.cur_x), Unwrap(s.cur_y)>>)
    ELSE f

TravelAfter(t, D, e, events) ==
    IF e.kind = "Sync" /\ t.pure
    THEN [pure |-> TRUE,
          first |-> [c \in CursorIds |-> FirstAfter(t.first[c], abs_state_mut(D, c))],
          sum |-> [c \in CursorIds |-> Plus(t.sum[c], MotionIn(events, c))]]
    ELSE IF e.kind = "AbsAxis" /\ e.code \in {ABS_X, ABS_Y}
    THEN t
    ELSE Strayed

\* what one completed sample adds to its cursor: nothing for the first since
\* the assignment, (current - previous) * scale afterwards
SampleExpect(h, s) ==
    IF Completes(s) /\ h.n >= 1
    THEN <<(Unwrap(s.cur_x) - h.x) * abs_scale, (Unwrap(s.cur_y) - h.y) * abs_scale>>
    ELSE <<0, 0>>

RECURSIVE MtExpect(_, _, _, _)
MtExpect(h, D, c, i) ==
    IF i > Len(D.mt_slots) THEN <<0, 0>>
    ELSE Plus(IF D.mt_slots[i].cursor = Some(c) /\ (i - 1) \in DOMAIN h
              THEN SampleExpect(h[i - 1], D.mt_slots[i])
              ELSE <<0, 0>>,
              MtExpect(h, D, c, i + 1))

NoExpect == [c \in CursorIds |-> <<0, 0>>]

\* at a sync: per cursor, the relative sums of the window plus what the
\* completed absolute samples add
ExpectAfter(w, mh, ah, D, e) ==
    IF e.kind = "Sync"
    THEN [c \in CursorIds |->
            Plus(<<w[c].sx, w[c].sy>>,
                 Plus(SampleExpect(ah[c], abs_state_mut(D, c)), MtExpect(mh, D, c, 1)))]
    ELSE NoExpect

\* the cursor the last report of the designated axis named, None when its
\* value lay in neither range (and before the first such report)
AxisSaidAfter(a, D, e) ==
    IF D.mapping.kind = "ByAbsAxisRange" /\ e.kind = "AbsAxis" /\ e.code = D.mapping.axis
    THEN LeftOrRight(D.mapping.left, D.mapping.right, e.value)
    ELSE a

\* mt_left_tracking or mt_right_tracking
Tracking(D, c) == IF c = "Left" THEN D.mt_left_tracking ELSE D.mt_right_tracking

\* the cursors whose binding the tracking id t holds
BoundTo(D, t) == {c \in CursorIds : t # None /\ Tracking(D, c) = t}

NoneFreed == [open |-> {}, took |-> None]

\* no poll has returned yet
NoResult == [tag |-> "None", value |-> <<>>, error |-> ""]

\* one polling cycle: the devices before it, whether the readiness wait
\* succeeded, the devices it reported ready, what each read returned, and the
\* devices read, in order
NoCycle == [before |-> <<>>, waited |-> FALSE, ready |-> {}, fetched |-> <<>>,
            reads |-> <<>>]

\* open: the cursors a release of a bound tracking id freed and no id was
\* bound to since; took: the cursor of open that this event bound a tracking
\* id to
Took(f, now) == [open |-> f.open \ now, took |-> now \cap f.open]

\* D is the decoder before the event and D1 the decoder after it
FreedAfter(f, D, e, D1) ==
    IF e.kind = "AbsAxis" /\ e.code = ABS_MT_TRACKING_ID /\ SlotIndexOk(D)
    THEN IF e.value < 0
         THEN [open |-> f.open \cup BoundTo(D, SlotOf(D, D.mt_cur_slot).tracking_id),
               took |-> None]
         ELSE Took(f, BoundTo(D1, Some(e.value)) \ BoundTo(D, Some(e.value)))
    ELSE [f EXCEPT !.took = None]

-----------------------------------------------------------------------------
(* Bounds *)

\* relative-axis reports between two syncs
MaxRel == 2

\* the multi-touch slot indices the history follows
SlotIds == {0, 1}

\* sources handed to EvdevDaemon::new
MaxSources == 3

\* raw events one fetch_events returns
MaxFetch == 3

-----------------------------------------------------------------------------
(* Actions *)

\* One call of Decoder::decode, as EvdevDaemon::poll makes it for one fetched
\* event; in phase "running", followed by main's fold of the returned batch.
\* Under overflow checks an i32 overflow panics and the process is gone.
Decoded(e, c, r) ==
    /\ event' = e
    /\ routed' = c.cursor
    /\ IF overflow_checks /\ DecodeOverflows(c, e)
       THEN /\ panicked' = TRUE
            /\ emitted' = <<>>
            /\ UNCHANGED <<dec, win, closed, mt_hist, abs_hist, travel, expect,
                           axis_said, freed>>
       ELSE /\ panicked' = FALSE
            /\ dec' = r.dec
            /\ emitted' = r.events
            /\ win' = WinAfter(win, e, c.cursor)
            /\ closed' = IF e.kind = "Sync"
                         THEN [win EXCEPT !.held = [Left |-> left.buttons,
                                                    Right |-> right.buttons],
                                          !.after_sync = event.kind = "Sync"]
                         ELSE WinEmpty
            /\ mt_hist' = MtHistAfter(mt_hist, dec, e)
            /\ abs_hist' = AbsHistAfter(abs_hist, dec, e)
            /\ travel' = TravelAfter(travel, dec, e, r.events)
            /\ expect' = ExpectAfter(win, mt_hist, abs_hist, dec, e)
            /\ axis_said' = AxisSaidAfter(axis_said, dec, e)
            /\ freed' = FreedAfter(freed, dec, e, dec')
    /\ IF phase = "running"
       THEN /\ left' = apply_events(left, right, emitted')[1]
            /\ right' = apply_events(left, right, emitted')[2]
       ELSE UNCHANGED <<left, right>>
    /\ UNCHANGED <<overflow_checks, sources, devices, returned, cycle, phase>>

Decode(e) == Decoded(e, cursor_for_event(dec, e), decode(dec, e))

\* the process is alive and its decoder exists
Live == phase \in {"decoder", "running"} /\ ~panicked

\* a relative axis report; at most MaxRel of them in one report window
DecodeRelAxis(codes, values) ==
    \E c \in codes, v \in values :
        /\ Live
        /\ win.rel < MaxRel
        /\ Decode(Ev("RelAxis", c, v))

DecodeKey(codes) ==
    \E c \in codes, v \in {0, 1} :
        /\ Live
        /\ Decode(Ev("Key", c, v))

DecodeAbsAxis(codes, values) ==
    \E c \in codes, v \in values :
        /\ Live
        /\ Decode(Ev("AbsAxis", c, v))

DecodeSync ==
    /\ Live
    /\ Decode(Ev("Sync", SYN_REPORT, 0))

DecodeOther ==
    /\ Live
    /\ Decode(Ev("Misc", MSC_SCAN, 0))

\* EvdevDaemon::new when every open_device succeeds
EvdevDaemonNew ==
    /\ phase = "discovered"
    /\ LET hinted == assign_cursor_hints(sources)
       IN devices' = [i \in 1..Len(hinted) |-> DeviceHandle(hinted[i])]
    /\ phase' = "constructed"
    /\ UNCHANGED <<dec, overflow_checks, panicked, event, routed, emitted, win,
                   closed, mt_hist, abs_hist, travel, expect, axis_said, freed, left,
                   right, sources, returned, cycle>>

\* EvdevDaemon::new when an open_device fails: `?` returns the error and the
\* handles opened so far are dropped
EvdevDaemonNewFails ==
    /\ phase = "discovered"
    /\ sources # <<>>
    /\ devices' = <<>>
    /\ phase' = "open_failed"
    /\ UNCHANGED <<dec, overflow_checks, panicked, event, routed, emitted, win,
                   closed, mt_hist, abs_hist, travel, expect, axis_said, freed, left,
                   right, sources, returned, cycle>>

\* EvdevDaemon::poll whose readiness wait fails: `poll(..)?` returns the error
PollWaitFails ==
    /\ phase = "constructed"
    /\ ~panicked
    /\ returned' = Err("poll")
    /\ emitted' = <<>>
    /\ cycle' = [before |-> devices, waited |-> FALSE, ready |-> {},
                 fetched |-> <<>>, reads |-> <<>>]
    /\ UNCHANGED <<dec, overflow_checks, panicked, event, routed, win, closed,
                   mt_hist, abs_hist, travel, expect, axis_said, freed, left, right,
                   sources, devices, phase>>

\* EvdevDaemon::poll after a successful wait, p being what the loop comes to
Polled(revents, fetch, p) ==
    /\ phase = "constructed"
    /\ ~panicked
    /\ IF overflow_checks /\ p.overflowed
       THEN /\ panicked' = TRUE
            /\ UNCHANGED <<devices, returned, emitted, cycle>>
       ELSE /\ panicked' = FALSE
            /\ devices' = p.devices
            /\ returned' = p.result
            /\ emitted' = p.result.value
            /\ cycle' = [before |-> devices, waited |-> TRUE, ready |-> revents,
                         fetched |-> fetch, reads |-> p.reads]
    /\ UNCHANGED <<dec, overflow_checks, event, routed, win, closed, mt_hist,
                   abs_hist, travel, expect, axis_said, freed, left, right, sources, phase>>

\* a polling cycle in which every read succeeds, each returning one of batches
PollReads(batches) ==
    \E revents \in SUBSET DOMAIN devices :
        \E fetch \in [revents -> {Ok(b) : b \in batches}] :
            Polled(revents, fetch, poll(devices, revents, fetch))

\* a polling cycle in which the read of a ready device fails
PollReadFails(batches) ==
    \E revents \in SUBSET DOMAIN devices :
        \E fetch \in [revents -> {Ok(b) : b \in batches} \cup {Err("fetch_events")}] :
            /\ \E i \in revents : fetch[i].tag = "Err"
            /\ Polled(revents, fetch, poll(devices, revents, fetch))

\* a Decoder right after Decoder::new(m, abs_scale) for an m of M, in phase p,
\* in a build whose overflow checks are one of B
InitDecoder(M, p, B) ==
    /\ dec \in {NewDecoder(m) : m \in M}
    /\ overflow_checks \in B
    /\ panicked = FALSE
    /\ event = NoEvent
    /\ routed = "Left"
    /\ emitted = <<>>
    /\ win = WinEmpty
    /\ closed = WinEmpty
    /\ mt_hist = [i \in SlotIds |-> NoSamples]
    /\ abs_hist = [c \in CursorIds |-> NoSamples]
    /\ travel = NoTravel
    /\ expect = NoExpect
    /\ axis_said = None
    /\ freed = NoneFreed
    /\ left = NewCursorState("Left")
    /\ right = NewCursorState("Right")
    /\ devices = <<>>
    /\ returned = NoResult
    /\ cycle = NoCycle
    /\ phase = p

-----------------------------------------------------------------------------
(* Spec: a pointer device reporting relative motion, a button and simple     *)
(* absolute positions.  The values are small: no i32 overflow and no f32     *)
(* rounding is in reach, and the two builds behave alike.                    *)

Mappings ==
    {DevicePerCursor("Right"), ByEventCodeRange(<<REL_X, REL_X>>, <<REL_Y, BTN_LEFT>>)}

NoSources == sources = <<>>

Init == InitDecoder(Mappings, "decoder", {FALSE}) /\ NoSources

Next ==
    \/ DecodeRelAxis({REL_X, REL_Y, REL_WHEEL}, {-2, 2})
    \/ DecodeKey({BTN_LEFT})
    \/ DecodeAbsAxis({ABS_X, ABS_Y}, {0, 1})
    \/ DecodeSync

Spec == Init /\ [][Next]_vars

-----------------------------------------------------------------------------
(* SpecRel: a relative pointer at the edges of its number formats, in both  *)
(* builds: REL_X and REL_Y values at the limit of f32's exact integers,     *)
(* REL_WHEEL values at the limit of i32.                                    *)

MappingsRel == {DevicePerCursor("Left"), Unknown}

InitRel == InitDecoder(MappingsRel, "decoder", BOOLEAN) /\ NoSources

NextRel ==
    \/ DecodeRelAxis({REL_X, REL_Y}, {-1, 1, F32ExactLimit})
    \/ DecodeRelAxis({REL_WHEEL}, {1, I32Max, I32Min})
    \/ DecodeSync

SpecRel == InitRel /\ [][NextRel]_vars

-----------------------------------------------------------------------------
(* SpecTouch: a touch surface opened as one cursor's device, reporting      *)
(* contacts on slot 0: tracking ids, positions, syncs.                      *)

MappingsTouch == {DevicePerCursor("Left"), DevicePerCursor("Right")}

InitTouch == InitDecoder(MappingsTouch, "decoder", {FALSE}) /\ NoSources

NextTouch ==
    \/ DecodeAbsAxis({ABS_MT_TRACKING_ID}, {-1, 1, 2, 3})
    \/ DecodeAbsAxis({ABS_MT_POSITION_X, ABS_MT_POSITION_Y}, {0, 1})
    \/ DecodeSync

SpecTouch == InitTouch /\ [][NextTouch]_vars

-----------------------------------------------------------------------------
(* SpecSlots: a multi-touch device selecting slots and assigning and        *)
(* releasing tracking ids.                                                  *)

MappingsSlots == {Unknown}

InitSlots == InitDecoder(MappingsSlots, "decoder", {FALSE}) /\ NoSources

NextSlots ==
    \/ DecodeAbsAxis({ABS_MT_SLOT}, {-1, 0, 1, 2})
    \/ DecodeAbsAxis({ABS_MT_TRACKING_ID}, {-1, 1, 2, 3})
    \/ DecodeSync

SpecSlots == InitSlots /\ [][NextSlots]_vars

-----------------------------------------------------------------------------
(* SpecMap: one device carrying both cursors, under each SingleDevice       *)
(* mapping.  The ranges are 0..=1 for Left and 2..=3 for Right; the         *)
(* absolute values reported lie in the left range, in the right range and   *)
(* in neither.                                                              *)

MappingsMap ==
    {ByAbsAxisRange(ABS_X, <<0, 1>>, <<2, 3>>),
     ByAbsAxisRange(ABS_MT_POSITION_X, <<0, 1>>, <<2, 3>>),
     ByEventCodeRange(<<REL_X, REL_X>>, <<ABS_MT_POSITION_X, ABS_MT_TRACKING_ID>>),
     ByTrackingIdParity,
     Unknown}

InitMap == InitDecoder(MappingsMap, "decoder", {FALSE}) /\ NoSources

NextMap ==
    \/ DecodeAbsAxis({ABS_X, ABS_MT_POSITION_X}, {1, 2, 4})
    \/ DecodeAbsAxis({ABS_MT_TRACKING_ID}, {1, 2})
    \/ DecodeRelAxis({REL_X}, {1})
    \/ DecodeSync

SpecMap == InitMap /\ [][NextMap]_vars

-----------------------------------------------------------------------------
(* SpecButtons: main's loop over one device with buttons and a wheel, each  *)
(* returned batch folded into the two CursorStates.                         *)

MappingsButtons ==
    {DevicePerCursor("Left"), DevicePerCursor("Right"), Unknown,
     ByEventCodeRange(<<BTN_LEFT, BTN_LEFT>>, <<BTN_RIGHT, BTN_SIDE>>)}

InitButtons == InitDecoder(MappingsButtons, "running", {FALSE}) /\ NoSources

NextButtons ==
    \/ DecodeKey({BTN_LEFT, BTN_RIGHT, BTN_SIDE})
    \/ DecodeRelAxis({REL_WHEEL, REL_HWHEEL}, {1})
    \/ DecodeOther
    \/ DecodeSync

SpecButtons == InitButtons /\ [][NextButtons]_vars

-----------------------------------------------------------------------------
(* SpecDaemon: EvdevDaemon::new over every list of up to MaxSources         *)
(* sources with every combination of hints.                                 *)

Hints == {None, Some("Left"), Some("Right")}

SourceLists ==
    UNION {[1..n -> Hints] : n \in 0..MaxSources}

InitDaemon ==
    /\ InitDecoder({Unknown}, "discovered", {FALSE})
    /\ \E hints \in SourceLists :
          sources = [i \in DOMAIN hints |-> DeviceSource(i, hints[i])]

NextDaemon ==
    \/ EvdevDaemonNew
    \/ EvdevDaemonNewFails

SpecDaemon == InitDaemon /\ [][NextDaemon]_vars

-----------------------------------------------------------------------------
(* SpecSample: one cursor's device reporting simple absolute positions and  *)
(* one multi-touch contact on slot 0, coordinate by coordinate, with syncs  *)
(* falling between the coordinates of a sample.                             *)

MappingsSample == {DevicePerCursor("Left")}

InitSample == InitDecoder(MappingsSample, "decoder", {FALSE}) /\ NoSources

NextSample ==
    \/ DecodeAbsAxis({ABS_X, ABS_Y}, {0, 1})
    \/ DecodeAbsAxis({ABS_MT_TRACKING_ID}, {-1, 1})
    \/ DecodeAbsAxis({ABS_MT_POSITION_X, ABS_MT_POSITION_Y}, {0, 1})
    \/ DecodeSync

SpecSample == InitSample /\ [][NextSample]_vars

-----------------------------------------------------------------------------
(* SpecParity: one touch surface carrying both cursors under                *)
(* SingleDevice/ByTrackingIdParity: contacts with even and odd tracking     *)
(* ids come and go on slot 0, between relative reports, keys and syncs.     *)

MappingsParity == {ByTrackingIdParity}

InitParity == InitDecoder(MappingsParity, "decoder", {FALSE}) /\ NoSources

NextParity ==
    \/ DecodeAbsAxis({ABS_MT_TRACKING_ID}, {-1, 1, 2})
    \/ DecodeAbsAxis({ABS_MT_POSITION_X}, {0, 1})
    \/ DecodeRelAxis({REL_X}, {1})
    \/ DecodeKey({BTN_LEFT})
    \/ DecodeSync

SpecParity == InitParity /\ [][NextParity]_vars

\* a decoder whose touch device selects slot -1 and slot 0, with a contact
\* reported on whichever slot is current and relative motion beside it
MappingsNoSlot == {ByTrackingIdParity, DevicePerCursor("Left")}

InitNoSlot == InitDecoder(MappingsNoSlot, "decoder", {FALSE}) /\ NoSources

NextNoSlot ==
    \/ DecodeAbsAxis({ABS_MT_SLOT}, {-1, 0})
    \/ DecodeAbsAxis({ABS_MT_TRACKING_ID}, {-1, 1})
    \/ DecodeAbsAxis({ABS_MT_POSITION_X, ABS_MT_POSITION_Y}, {0, 1})
    \/ DecodeRelAxis({REL_X}, {1})
    \/ DecodeSync

SpecNoSlot == InitNoSlot /\ [][NextNoSlot]_vars

\* a single device nothing is known about: relative motion, a button, plain
\* absolute coordinates and a contact's tracking id
MappingsUnknown == {Unknown}

InitUnknown == InitDecoder(MappingsUnknown, "decoder", {FALSE}) /\ NoSources

NextUnknown ==
    \/ DecodeRelAxis({REL_X}, {1})
    \/ DecodeKey({BTN_LEFT})
    \/ DecodeAbsAxis({ABS_X, ABS_Y}, {0, 1})
    \/ DecodeAbsAxis({ABS_MT_TRACKING_ID}, {-1, 1})
    \/ DecodeSync

SpecUnknown == InitUnknown /\ [][NextUnknown]_vars

\* an absolute device whose x passes the limit up to which f32 holds every
\* integer
MappingsTravel == {DevicePerCursor("Left"), DevicePerCursor("Right")}

InitTravel == InitDecoder(MappingsTravel, "decoder", {FALSE}) /\ NoSources

NextTravel ==
    \/ DecodeAbsAxis({ABS_X}, {0, F32ExactLimit + 1})
    \/ DecodeAbsAxis({ABS_Y}, {0, 1})
    \/ DecodeSync

SpecTravel == InitTravel /\ [][NextTravel]_vars

-----------------------------------------------------------------------------
(* SpecPoll: EvdevDaemon::new over one or two unhinted sources, then        *)
(* polling cycles in which each device may be ready, each read returns up   *)
(* to MaxFetch raw events or fails, and the readiness wait may fail.  A     *)
(* single device reports presses, releases and syncs; each device of a      *)
(* pair reports presses and syncs.                                          *)

PollEvents(n) ==
    IF n = 1
    THEN {Ev("Key", BTN_LEFT, 1), Ev("Key", BTN_LEFT, 0), Ev("Sync", SYN_REPORT, 0)}
    ELSE {Ev("Key", BTN_LEFT, 1), Ev("Sync", SYN_REPORT, 0)}

RawBatches(events) == UNION {[1..n -> events] : n \in 0..MaxFetch}

InitPoll ==
    /\ InitDecoder({Unknown}, "discovered", {FALSE})
    /\ \E hints \in [1..1 -> {None}] \cup [1..2 -> {None}] :
          sources = [i \in DOMAIN hints |-> DeviceSource(i, hints[i])]

NextPoll ==
    \/ EvdevDaemonNew
    \/ PollWaitFails
    \/ PollReads(RawBatches(PollEvents(Len(devices))))
    \/ PollReadFails(RawBatches(PollEvents(Len(devices))))

SpecPoll == InitPoll /\ [][NextPoll]_vars

-----------------------------------------------------------------------------
(* Claims *)

Emitted == {emitted[i] : i \in DOMAIN emitted}
Synced == event.kind = "Sync" /\ ~panicked

\* C2: no CursorEvent is empty.  Every event a decode returns carries motion, a
\* wheel delta or a button transition, and when it carries no motion and no
\* wheel delta, a known button's key was reported for its cursor since the
\* last sync.
C2_NoEmptyCursorEvent ==
    \A e \in Emitted :
        /\ e.dx # 0 \/ e.dy # 0 \/ e.wheel # 0 \/ e.button # None
        /\ e.dx # 0 \/ e.dy # 0 \/ e.wheel # 0 \/ closed[e.cursor].key # None

\* a sync closed a window whose relative reports cancelled: nothing was emitted
C2_Witness ==
    /\ Synced
    /\ closed.rel >= 2
    /\ emitted = <<>>

\* C1: relative sums are exact.  At a sync closing a window without absolute
\* reports, the event emitted for a cursor has dx, dy and wheel equal to the
\* sums of the REL_X, REL_Y and REL_WHEEL values routed to it in that window,
\* the wheel's being sw + sk * 2^32.
C1_RelativeSumsExact ==
    (Synced /\ ~closed.abs) =>
        \A e \in Emitted :
            /\ e.dx = closed[e.cursor].sx
            /\ e.dy = closed[e.cursor].sy
            /\ closed[e.cursor].sk = 0
            /\ e.wheel = closed[e.cursor].sw

\* C3: a DevicePerCursor{c} decoder attributes every CursorEvent it emits to c.
C3_DevicePerCursorFixed ==
    dec.mapping.kind = "DevicePerCursor" =>
        \A e \in Emitted : e.cursor = dec.mapping.cursor

\* the motion the last decode emitted for cursor c
MotionOf(c) ==
    IF \E e \in Emitted : e.cursor = c
    THEN LET e == CHOOSE e \in Emitted : e.cursor = c IN <<e.dx, e.dy>>
    ELSE <<0, 0>>

\* C7: absolute samples.  At every sync the motion emitted for a cursor is what
\* its reports add up to, where the first completed sample since the start, or
\* since a tracking id was written to its slot, adds nothing and every later
\* one adds (current - previous) * scale on each axis.
C7_FirstSampleSeeds ==
    Synced => \A c \in CursorIds : MotionOf(c) = expect[c]

\* the step decodes a tracking-id event on a valid slot
TrackingStep ==
    /\ event'.kind = "AbsAxis"
    /\ event'.code = ABS_MT_TRACKING_ID
    /\ ~panicked'
    /\ SlotIndexOk(dec)

\* the other slots holding a contact when the step assigns event'.value
OtherContacts ==
    {i \in 1..Len(dec.mt_slots) :
        /\ i # dec.mt_cur_slot + 1
        /\ dec.mt_slots[i].tracking_id # None
        /\ dec.mt_slots[i].tracking_id # Some(event'.value)}

OtherCursor(c) == IF c = "Left" THEN "Right" ELSE "Left"

\* C5: multi-touch allocation.  A tracking id assigned while no other slot
\* holds a contact is bound to Left; assigned while one other slot holds a
\* contact bound to a cursor, it is bound to the other cursor; assigned while
\* other slots hold contacts bound to Left and to Right, it is bound to none.
C5_TwoContactsLeftRight ==
    [][(TrackingStep /\ event'.value >= 0) =>
          LET bound == UNION {dec.mt_slots[i].cursor : i \in OtherContacts}
              mine == dec'.mt_slots[dec.mt_cur_slot + 1].cursor
          IN /\ OtherContacts = {} => mine = Some("Left")
             /\ (Cardinality(OtherContacts) = 1 /\ bound # {}) =>
                    mine = {OtherCursor(c) : c \in bound}
             /\ bound = CursorIds => mine = None]_vars

\* C6: a release frees the cursor.  A cursor freed by the release of the
\* tracking id bound to it stays free until a tracking id is bound to it, and a
\* newly seen tracking id on a valid slot is bound to Left if Left is free,
\* otherwise to Right if Right is free.
C6_ReleaseFreesCursor ==
    [][/\ \A c \in freed'.open : Tracking(dec', c) = None
       /\ (TrackingStep /\ event'.value >= 0
             /\ BoundTo(dec, Some(event'.value)) = {}) =>
            LET mine == dec'.mt_slots[dec.mt_cur_slot + 1].cursor
            IN IF dec.mt_left_tracking = None
               THEN /\ dec'.mt_left_tracking = Some(event'.value)
                    /\ mine = Some("Left")
               ELSE IF dec.mt_right_tracking = None
               THEN /\ dec'.mt_right_tracking = Some(event'.value)
                    /\ mine = Some("Right")
               ELSE TRUE]_vars

\* a tracking id already seen and released comes again and gets the cursor its
\* release freed
C6_Witness ==
    /\ event.code = ABS_MT_TRACKING_ID
    /\ freed.took = Some("Right")
    /\ dec.mt_right_tracking = Some(event.value)
    /\ dec.mt_left_tracking # None

\* e reports the axis that the ByAbsAxisRange mapping m designates
DesignatedReport(m, e) == e.kind = "AbsAxis" /\ e.code = m.axis

\* C4: ByAbsAxisRange is sticky.  An event that is not a report of the
\* designated axis is routed to the cursor that the last report of the
\* designated axis named, and a report of the designated axis with a value in
\* neither range leaves the active cursor as it was.
C4_AxisRangeSticky ==
    [][(dec.mapping.kind = "ByAbsAxisRange" /\ ~panicked') =>
          IF DesignatedReport(dec.mapping, event')
          THEN (~Contains(dec.mapping.left, event'.value)
                  /\ ~Contains(dec.mapping.right, event'.value)) =>
                   dec'.active_cursor = dec.active_cursor
          ELSE axis_said # None => routed' = Unwrap(axis_said)]_vars

\* the rule of mapping m matches event e positively
PositiveMatch(m, e) ==
    CASE m.kind = "ByAbsAxisRange" ->
            /\ DesignatedReport(m, e)
            /\ Contains(m.left, e.value) \/ Contains(m.right, e.value)
      [] m.kind = "ByEventCodeRange" ->
            Contains(m.left, e.code) \/ Contains(m.right, e.code)
      [] m.kind = "ByTrackingIdParity" ->
            e.kind = "AbsAxis" /\ e.code = ABS_MT_TRACKING_ID
      [] OTHER -> FALSE

\* C9: cursor_for_event returns a cursor for every event, and an event that the
\* mapping's rule does not match positively leaves the active cursor as it was
\* and, under a SingleDevice mapping, is routed to it.
C9_ActiveChangesOnMatchOnly ==
    [][~panicked' =>
          /\ routed' \in CursorIds
          /\ ~PositiveMatch(dec.mapping, event') =>
                /\ dec'.active_cursor = dec.active_cursor
                /\ dec.mapping.kind # "DevicePerCursor" => routed' = dec.active_cursor]_vars

\* the consumer's CursorState for cursor c
StateOf(c) == IF c = "Left" THEN left ELSE right

\* C8: buttons end to end.  At a sync, the last key report of a known button
\* routed to a cursor since the previous sync is the button transition of the
\* CursorEvent emitted for that cursor, and after main's fold the button is
\* in that cursor's held set exactly if the report was a press.
C8_ButtonPressRelease ==
    (phase = "running" /\ Synced) =>
        \A c \in CursorIds :
            closed[c].key # None =>
                LET k == Unwrap(closed[c].key)
                IN /\ \E e \in Emitted : e.cursor = c /\ e.button = Some(k)
                   /\ k[2] <=> k[1] \in StateOf(c).buttons

\* the left button, held since an earlier sync, was released and a sync
\* followed: the event carries (Left, false) and the fold dropped the button
C8_Witness ==
    /\ phase = "running"
    /\ Synced
    /\ closed["Left"].key = Some(<<"Left", FALSE>>)
    /\ "Left" \in closed.held["Left"]
    /\ "Left" \notin left.buttons
    /\ \E e \in Emitted : e.cursor = "Left" /\ e.button = Some(<<"Left", FALSE>>)

\* the hint of the i-th source before and after EvdevDaemon::new
HintBefore(i) == sources[i].cursor_hint
HintAfter(i) == devices[i].source.cursor_hint

\* C10: construction hinting.  Of two sources with at most one hint, both end
\* hinted, one Left and one Right, a hint given is kept, list order decides
\* when none is given, and both decoders are DevicePerCursor; of a list of any
\* other length no hint changes and an unhinted source gets SingleDevice/Unknown.
C10_ConstructionHinting ==
    phase = "constructed" =>
        /\ Len(devices) = Len(sources)
        /\ \A i \in 1..Len(sources) : devices[i].source.name = sources[i].name
        /\ (Len(sources) = 2 /\ \E i \in 1..2 : HintBefore(i) = None) =>
              /\ {HintAfter(1), HintAfter(2)} = {Some("Left"), Some("Right")}
              /\ \A i \in 1..2 : HintBefore(i) # None => HintAfter(i) = HintBefore(i)
              /\ (\A i \in 1..2 : HintBefore(i) = None) =>
                    HintAfter(1) = Some("Left") /\ HintAfter(2) = Some("Right")
              /\ \A i \in 1..2 :
                    devices[i].decoder = NewDecoder(DevicePerCursor(Unwrap(HintAfter(i))))
        /\ Len(sources) # 2 =>
              \A i \in 1..Len(sources) :
                  /\ HintAfter(i) = HintBefore(i)
                  /\ HintBefore(i) = None => devices[i].decoder = NewDecoder(Unknown)

\* two sources, the second hinted Left: the first was given Right
C10_Witness ==
    /\ phase = "constructed"
    /\ Len(sources) = 2
    /\ HintBefore(1) = None
    /\ HintBefore(2) = Some("Left")
    /\ HintAfter(1) = Some("Right")

Front(s) == SubSeq(s, 1, Len(s) - 1)
Last(s) == s[Len(s)]

\* the decoder D after the raw events evs, fed to it one at a time in arrival
\* order, and the CursorEvents it emitted for them, in emission order
RECURSIVE DecoderAfter(_, _)
DecoderAfter(D, evs) ==
    IF evs = <<>> THEN D ELSE decode(DecoderAfter(D, Front(evs)), Last(evs)).dec

RECURSIVE BatchOf(_, _)
BatchOf(D, evs) ==
    IF evs = <<>> THEN <<>>
    ELSE BatchOf(D, Front(evs)) \o decode(DecoderAfter(D, Front(evs)), Last(evs)).events

\* the orders in which the members of S can be listed
Orders(S) ==
    {o \in [1..Cardinality(S) -> S] : \A i, j \in DOMAIN o : i # j => o[i] # o[j]}

\* the batches b[o[1]], b[o[2]], .. one after the other
RECURSIVE ConcatIn(_, _)
ConcatIn(o, b) == IF o = <<>> THEN <<>> ELSE b[Head(o)] \o ConcatIn(Tail(o), b)

\* what device i's decoder emitted for the raw events read from it in the
\* last cycle
CycleBatch(i) == BatchOf(cycle.before[i].decoder, cycle.fetched[i].value)

\* C11: a successful polling cycle returns the batches of the ready devices one
\* after the other, each being what that device's own decoder emitted for its
\* raw events taken one at a time in arrival order; a ready device's decoder
\* is left as those events leave it, and a device that was not ready is
\* unchanged.
C11_PollConcatenates ==
    returned.tag = "Ok" =>
        /\ \E o \in Orders(cycle.ready) :
              returned.value = ConcatIn(o, [i \in cycle.ready |-> CycleBatch(i)])
        /\ \A i \in DOMAIN devices :
              IF i \in cycle.ready
              THEN /\ devices[i].source = cycle.before[i].source
                   /\ devices[i].decoder =
                         DecoderAfter(cycle.before[i].decoder, cycle.fetched[i].value)
              ELSE devices[i] = cycle.before[i]

\* both devices were ready, the first emitted two events and the second one
C11_Witness ==
    /\ returned.tag = "Ok"
    /\ cycle.ready = {1, 2}
    /\ Len(CycleBatch(1)) = 2
    /\ Len(CycleBatch(2)) = 1
    /\ Len(returned.value) = 3
    /\ returned.value[1].cursor = "Left"
    /\ returned.value[3].cursor = "Right"

\* the reads of the last cycle failed for device i
ReadFailed(i) == i \in cycle.ready /\ cycle.fetched[i].tag = "Err"

\* C12: a polling cycle whose readiness wait fails, or in which the read of a
\* ready device fails, returns an error and no batch; the wait is not repeated
\* and no device is read after the failure or read twice.
C12_PollErrorPropagates ==
    returned.tag # "None" =>
        /\ ~cycle.waited => returned.tag = "Err" /\ cycle.reads = <<>>
        /\ (\E i \in cycle.ready : ReadFailed(i)) =>
              /\ returned.tag = "Err"
              /\ ReadFailed(Last(cycle.reads))
              /\ \A k \in 1..(Len(cycle.reads) - 1) : ~ReadFailed(cycle.reads[k])
        /\ returned.tag = "Err" => returned.value = <<>> /\ emitted = <<>>
        /\ \A j, k \in DOMAIN cycle.reads :
              /\ cycle.reads[k] \in cycle.ready
              /\ j < k => cycle.reads[j] < cycle.reads[k]

\* the second device's read failed after the first device's events had been
\* decoded into a CursorEvent
C12_Witness ==
    /\ returned.tag = "Err"
    /\ cycle.reads = <<1, 2>>
    /\ ReadFailed(2)
    /\ Len(CycleBatch(1)) >= 1

\* C13: the decoder does not fail.  No decode of any event in any reachable
\* state ends in an abort: the process never panics.
C13_DecoderNeverAborts == ~panicked

\* the positions in the last batch of the events for cursor c
EventsFor(c) == {i \in DOMAIN emitted : emitted[i].cursor = c}

\* the reports for cursor c in the window the last sync closed add up to
\* motion or to a wheel delta, or a known button's key was among them
Moved(c) ==
    \/ expect[c] # <<0, 0>>
    \/ closed[c].sw # 0
    \/ closed[c].sk # 0
    \/ closed[c].key # None

\* C14: one event per active cursor.  A sync emits exactly one CursorEvent for
\* each cursor whose reports since the previous sync add up to motion or a
\* wheel delta or include a button transition, none for the other cursors,
\* hence at most two, and Left's before Right's.
C14_OneEventPerActiveCursor ==
    Synced =>
        /\ \A c \in CursorIds : Cardinality(EventsFor(c)) = IF Moved(c) THEN 1 ELSE 0
        /\ Len(emitted) <= 2
        /\ \A i, j \in DOMAIN emitted :
              i < j => emitted[i].cursor = "Left" /\ emitted[j].cursor = "Right"

\* exactly one of the current coordinates is present
Partial(s) == (s.cur_x = None) # (s.cur_y = None)

\* the samples that a sync adds to cursor c: its simple absolute state and the
\* multi-touch slots bound to it
SamplesOf(D, c) ==
    {abs_state_mut(D, c)}
        \cup {D.mt_slots[i] : i \in {j \in 1..Len(D.mt_slots) : D.mt_slots[j].cursor = Some(c)}}

\* C15: deferred sample completion.  At a sync, a simple absolute state or a
\* bound multi-touch slot holding only one current coordinate is left as it
\* is, last position and present coordinate included; in a window without
\* relative reports a cursor none of whose samples is complete gets no motion,
\* and a simple absolute sample completed by a coordinate that arrived after
\* such a sync yields (current - last) * scale and becomes the last position.
C15_DeferredSample ==
    [][(event'.kind = "Sync" /\ ~panicked') =>
          /\ \A c \in CursorIds :
                /\ Partial(abs_state_mut(dec, c)) =>
                      abs_state_mut(dec', c) = abs_state_mut(dec, c)
                /\ (win.rel = 0 /\ \A s \in SamplesOf(dec, c) : ~Completes(s)) =>
                      \A e \in Emitted' : e.cursor = c => e.dx = 0 /\ e.dy = 0
                /\ (/\ win.rel = 0
                    /\ Subtracts(abs_state_mut(dec, c))
                    /\ \A s \in SamplesOf(dec, c) \ {abs_state_mut(dec, c)} : ~Completes(s)) =>
                      /\ MotionOf(c)' =
                            <<(Unwrap(abs_state_mut(dec, c).cur_x)
                                 - Unwrap(abs_state_mut(dec, c).last_x)) * abs_scale,
                              (Unwrap(abs_state_mut(dec, c).cur_y)
                                 - Unwrap(abs_state_mut(dec, c).last_y)) * abs_scale>>
                      /\ abs_state_mut(dec', c).last_x = abs_state_mut(dec, c).cur_x
                      /\ abs_state_mut(dec', c).last_y = abs_state_mut(dec, c).cur_y
          /\ \A i \in 1..Len(dec.mt_slots) :
                (dec.mt_slots[i].cursor # None /\ Partial(dec.mt_slots[i])) =>
                    dec'.mt_slots[i] = dec.mt_slots[i]]_vars

\* a sync has just passed over a simple absolute state holding x only, with a
\* last position, and over a bound slot holding y only: both kept them and
\* nothing was emitted
C15_Witness ==
    /\ Synced
    /\ dec.abs_left.cur_x # None /\ dec.abs_left.cur_y = None
    /\ dec.abs_left.last_x # None
    /\ Len(dec.mt_slots) = 1
    /\ dec.mt_slots[1].cursor # None
    /\ dec.mt_slots[1].cur_y # None /\ dec.mt_slots[1].cur_x = None
    /\ emitted = <<>>

\* the step decodes a negative tracking id while slot mt_slots[i] is current
ReleaseOn(i) ==
    /\ event'.kind = "AbsAxis"
    /\ event'.code = ABS_MT_TRACKING_ID
    /\ event'.value < 0
    /\ dec.mt_cur_slot + 1 = i

\* C16: a slot's binding persists.  A slot bound to a cursor keeps that cursor
\* over every event except a negative tracking id decoded while it is the
\* current slot.
C16_BindingPersists ==
    [][~panicked' =>
          \A i \in 1..Len(dec.mt_slots) :
              (dec.mt_slots[i].cursor # None /\ ~ReleaseOn(i)) =>
                  dec'.mt_slots[i].cursor = dec.mt_slots[i].cursor]_vars

\* C17: tracking-id parity.  Under ByTrackingIdParity the assignment of an even
\* tracking id makes Left the active cursor and of an odd one Right, and
\* every other event, a negative tracking id included, leaves the active
\* cursor as it was.
C17_ParityOnAssignmentOnly ==
    [][(dec.mapping.kind = "ByTrackingIdParity" /\ ~panicked') =>
          IF /\ event'.kind = "AbsAxis"
             /\ event'.code = ABS_MT_TRACKING_ID
             /\ event'.value >= 0
          THEN dec'.active_cursor = IF event'.value % 2 = 0 THEN "Left" ELSE "Right"
          ELSE dec'.active_cursor = dec.active_cursor]_vars

\* C18: last write wins.  At a sync, every event emitted for a cursor carries
\* the last key report of a known button routed to that cursor since the
\* previous sync, whatever known or other key reports came before or after
\* it, and carries no button when only keys of other codes were reported.
C18_LastButtonWins ==
    Synced =>
        \A c \in CursorIds :
            /\ closed[c].key # None => EventsFor(c) # {}
            /\ \A i \in EventsFor(c) : emitted[i].button = closed[c].key

\* a window brought Right a press of the right button, then its release, and
\* a key of another code: the event carries the release
C18_Witness ==
    /\ Synced
    /\ closed["Right"].first = Some(<<"Right", TRUE>>)
    /\ closed["Right"].key = Some(<<"Right", FALSE>>)
    /\ closed["Right"].stray
    /\ \E i \in EventsFor("Right") : emitted[i].button = Some(<<"Right", FALSE>>)

\* C19: events are emitted only at sync boundaries and pending motion does
\* not survive one.  A decode that returns gives an empty batch for every
\* event that is not a sync; after a sync both PendingMotions are empty; and
\* a sync decoded directly after a sync emits nothing.
C19_EmitOnlyAtSync ==
    (phase \in {"decoder", "running"} /\ ~panicked) =>
        /\ event.kind # "Sync" => emitted = <<>>
        /\ event.kind = "Sync" =>
                /\ dec.pending_left = PendingMotion
                /\ dec.pending_right = PendingMotion
        /\ (event.kind = "Sync" /\ closed.after_sync) => emitted = <<>>

\* two syncs in a row, decoded while a lone ABS_X of a second sample is
\* waiting for its ABS_Y: the second sync emits nothing
C19_Witness ==
    /\ Synced
    /\ closed.after_sync
    /\ emitted = <<>>
    /\ dec.abs_right.last_x # None
    /\ dec.abs_right.cur_x # None
    /\ dec.abs_right.cur_y = None

\* what a decoder emits for one more REL_X report closed by a sync
LaterEvents(D) ==
    decode_events(D, <<Ev("RelAxis", REL_X, 1), Ev("Sync", SYN_REPORT, 0)>>,
                  <<>>, FALSE).events

\* C20: slot indices that are not array indices are ignored.  While the
\* current slot index is negative, a tracking-id or multi-touch position
\* event leaves every slot, both tracking bindings and both PendingMotions
\* as they were, and the events emitted later are the ones the decoder would
\* have emitted without it.
C20_NegativeSlotIgnored ==
    [][(/\ dec.mt_cur_slot < 0
        /\ event'.kind = "AbsAxis"
        /\ event'.code \in {ABS_MT_TRACKING_ID, ABS_MT_POSITION_X,
                            ABS_MT_POSITION_Y}
        /\ ~panicked') =>
            /\ dec'.mt_slots = dec.mt_slots
            /\ dec'.mt_left_tracking = dec.mt_left_tracking
            /\ dec'.mt_right_tracking = dec.mt_right_tracking
            /\ dec'.pending_left = dec.pending_left
            /\ dec'.pending_right = dec.pending_right
            /\ LaterEvents(dec') = LaterEvents(dec)]_vars

\* the step surfaces the unknown-mapping warning
Warned == ~dec.warned_unknown /\ dec'.warned_unknown

\* C21: under SingleDevice/Unknown the active cursor stays Left.  Every event
\* is routed to Left, every CursorEvent of relative, button and plain
\* absolute reports is Left's, and the warning is surfaced by the first
\* event decoded and by no other.
C21_UnknownStaysLeft ==
    [][(dec.mapping.kind = "Unknown" /\ ~panicked') =>
            /\ dec'.active_cursor = "Left"
            /\ routed' = "Left"
            /\ \A i \in DOMAIN emitted' : emitted'[i].cursor = "Left"
            /\ Warned <=> event = NoEvent]_vars

\* a warned decoder that took an absolute sample for Left and has just
\* emitted Left's motion together with a button transition
C21_Witness ==
    /\ dec.mapping.kind = "Unknown"
    /\ dec.warned_unknown
    /\ Synced
    /\ dec.abs_left.last_x # None
    /\ \E i \in DOMAIN emitted :
           /\ emitted[i].cursor = "Left"
           /\ emitted[i].dx # 0
           /\ emitted[i].button # None

\* slot i holds tracking id t for cursor c
Holds(i, t, c) ==
    /\ dec.mt_slots[i].tracking_id = t
    /\ dec.mt_slots[i].cursor = Some(c)

\* C22: tracking bindings never leak.  Whenever a cursor has a bound tracking
\* id, some slot holds that id with that cursor; so with every slot released
\* neither cursor is bound.
C22_NoLeakedBinding ==
    \A c \in CursorIds :
        Tracking(dec, c) # None =>
            \E i \in 1..Len(dec.mt_slots) : Holds(i, Tracking(dec, c), c)

\* C23: absolute deltas telescope.  While a DevicePerCursor decoder has
\* decoded nothing but ABS_X, ABS_Y and syncs, the dx and the dy of the events
\* emitted so far add up to (last completed sample - first completed sample)
\* * scale, and to nothing before a sample was completed.
C23_AbsoluteTelescopes ==
    (travel.pure /\ dec.mapping.kind = "DevicePerCursor" /\ ~panicked) =>
        \A c \in CursorIds :
            travel.sum[c] =
                IF travel.first[c] = None THEN <<0, 0>>
                ELSE <<(abs_hist[c].x - Unwrap(travel.first[c])[1]) * abs_scale,
                       (abs_hist[c].y - Unwrap(travel.first[c])[2]) * abs_scale>>

\* C24: the consumer's held-button set tracks the device.  After main folded
\* the batch of a sync of a DevicePerCursor{c} decoder, CursorState(c) holds
\* exactly the buttons whose most recent key report was a press.
C24_HeldTracksDevice ==
    (phase = "running" /\ Synced /\ dec.mapping.kind = "DevicePerCursor") =>
        StateOf(dec.mapping.cursor).buttons = closed.down[dec.mapping.cursor]

\* the devices the last cycle read successfully
ReadOk(i) == i \in DOMAIN cycle.fetched /\ cycle.fetched[i].tag = "Ok"

\* the events the batch read from device i decodes to
DecodedFrom(i) ==
    decode_events(cycle.before[i].decoder, cycle.fetched[i].value, <<>>,
                  FALSE).events

\* C25: a failed polling cycle is atomic.  When poll returns the error of a
\* failed read, every decoder is as it was before the cycle and no event was
\* decoded from a device read earlier in the cycle.
C25_FailedCycleAtomic ==
    (phase = "constructed" /\ ~panicked /\ cycle.waited
        /\ returned.tag = "Err") =>
        /\ devices = cycle.before
        /\ \A k \in 1..Len(cycle.reads) :
               ReadOk(cycle.reads[k]) => DecodedFrom(cycle.reads[k]) = <<>>

====
